---- MODULE Spec2Model ----
(***************************************************************************)
(* Model of the task tree of GriseoVul/fest: the table `tasks` kept by     *)
(* db_context.Database (rows with a parent id, a childs id array and a     *)
(* status flag) and the request handlers of main.py that drive it.         *)
(* SQL NULL / Python None is written 0 for ids and NoTask for Task objects.*)
(***************************************************************************)
EXTENDS Integers, Sequences, FiniteSets, TLC

VARIABLES
    tasks,    \* the table: a function from the ids of the stored rows to rows
    nextId,   \* the next value of the SERIAL column id
    last,     \* the last completed call: name, arguments, outcome and the
              \* table as it was when the call started
    reqs      \* the HTTP requests in progress, one per client: the handler, its
              \* position in the handler's code and its local variables

vars == <<tasks, nextId, last, reqs>>

\* ---- bounds ----
MaxTasks == 3      \* at most this many ids are ever handed out by the SERIAL column
MaxLen == 2        \* longest childs list passed in by a caller

NULL == 0
NoTask == [id |-> 0]

Range(s) == {s[i] : i \in 1..Len(s)}

SeqsUpTo(S, n) == UNION {[1..k -> S] : k \in 0..n}

\* the row of INSERT ... VALUES (..., status, ..., parent, childs)
Row(p, cs, st) == [parent |-> p, childs |-> cs, status |-> st]

\* DELETE FROM tasks WHERE id = %s
DeleteRow(db, id) == [i \in DOMAIN db \ {id} |-> db[i]]

\* UPDATE tasks SET parent = %s WHERE id = %s   (no row: nothing happens)
SetParent(db, id, p) ==
    IF id \in DOMAIN db THEN [db EXCEPT ![id].parent = p] ELSE db

\* UPDATE tasks SET childs = %s WHERE id = %s
SetChilds(db, id, cs) ==
    IF id \in DOMAIN db THEN [db EXCEPT ![id].childs = cs] ELSE db

\* UPDATE tasks SET status = %s WHERE id = %s
SetStatus(db, id, st) ==
    IF id \in DOMAIN db THEN [db EXCEPT ![id].status = st] ELSE db

\* ---- hydration: get_task / _build_task ----
RECURSIVE get_task(_, _, _), build_task(_, _, _), build_childs(_, _, _)

RECURSIVE build_childs_with_stubs(_, _, _)
\* mutant: a child already on the path is kept as an unexpanded Task
build_childs_with_stubs(db, cs, local_visited) ==
    IF cs = <<>> THEN <<>>
    ELSE LET c == Head(cs)
             child == IF c \in local_visited /\ c \in DOMAIN db
                      THEN [id |-> c, status |-> db[c].status,
                            childs |-> <<>>, parent |-> NoTask]
                      ELSE get_task(db, c, local_visited)
             rest == build_childs_with_stubs(db, Tail(cs), local_visited)
         IN IF child.id = 0 THEN rest ELSE <<child>> \o rest

\* the loop `for child_id in row.get("childs")` of _build_task
build_childs(db, cs, local_visited) ==
    IF cs = <<>> THEN <<>>
    ELSE LET c == Head(cs)
             child == IF c \in local_visited THEN NoTask
                      ELSE get_task(db, c, local_visited)
             rest == build_childs(db, Tail(cs), local_visited)
         IN IF child.id = 0 THEN rest ELSE <<child>> \o rest

build_task(db, id, visited) ==
    LET local_visited == visited \cup {id}
        row == db[id]
    IN [id |-> id,
        status |-> row.status,
        childs |-> build_childs(db, row.childs, local_visited),
        parent |-> IF row.parent # NULL /\ row.parent \notin local_visited
                   THEN get_task(db, row.parent, local_visited)
                   ELSE NoTask]

get_task(db, id, visited) ==
    IF id \in visited THEN NoTask
    ELSE IF id \in DOMAIN db THEN build_task(db, id, visited)
    ELSE NoTask

\* [child.id for child in task.childs]
ChildIds(task) == [i \in 1..Len(task.childs) |-> task.childs[i].id]

\* Database.get_tasks: the rows WHERE parent IS NULL, each hydrated (the order
\* of the rows is left open by the query and is not kept)
get_tasks(db) == {build_task(db, id, {}) : id \in {i \in DOMAIN db : db[i].parent = NULL}}

\* ---- cycle detection helpers ----
get_parent_id(db, task_id) ==
    IF task_id \in DOMAIN db THEN db[task_id].parent ELSE NULL

RECURSIVE ancestor_walk_no_failsafe(_, _, _, _)
\* mutant: an id met a second time ends the walk with False
ancestor_walk_no_failsafe(db, ancestor_id, current, seen) ==
    IF current = NULL THEN FALSE
    ELSE IF current \in seen THEN FALSE
    ELSE IF current = ancestor_id THEN TRUE
    ELSE ancestor_walk_no_failsafe(db, ancestor_id, get_parent_id(db, current),
                                   seen \cup {current})

RECURSIVE ancestor_walk(_, _, _, _)
\* the while loop of _is_ancestor
ancestor_walk(db, ancestor_id, current, seen) ==
    IF current = NULL THEN FALSE
    ELSE IF current \in seen THEN TRUE
    ELSE IF current = ancestor_id THEN TRUE
    ELSE ancestor_walk(db, ancestor_id, get_parent_id(db, current),
                       seen \cup {current})

\* mutant: looks at the task and its direct parent only
is_ancestor_one_hop(db, ancestor_id, descendant_id) ==
    /\ ancestor_id # NULL
    /\ descendant_id # NULL
    /\ \/ descendant_id = ancestor_id
       \/ get_parent_id(db, descendant_id) = ancestor_id

\* mutant: walks upward from the candidate instead of from the task
is_ancestor_swapped(db, ancestor_id, descendant_id) ==
    IF ancestor_id = NULL \/ descendant_id = NULL THEN FALSE
    ELSE ancestor_walk(db, descendant_id, ancestor_id, {})

is_ancestor(db, ancestor_id, descendant_id) ==
    IF ancestor_id = NULL \/ descendant_id = NULL THEN FALSE
    ELSE ancestor_walk(db, ancestor_id, descendant_id, {})

\* ---- _update_childs ----
\* mutant: validates the first element of the list only
childs_rejected_first_only(db, task_id, childs) ==
    /\ childs # <<>>
    /\ \/ childs[1] = task_id
       \/ is_ancestor(db, childs[1], task_id)

\* the validation loop: TRUE when it raises ValueError
childs_rejected(db, task_id, childs) ==
    \E i \in 1..Len(childs) :
        \/ childs[i] = task_id
        \/ is_ancestor(db, childs[i], task_id)

RECURSIVE set_parents(_, _, _)
\* for c in childs: UPDATE tasks SET parent = task_id WHERE id = c
set_parents(db, cs, p) ==
    IF cs = <<>> THEN db
    ELSE set_parents(SetParent(db, Head(cs), p), Tail(cs), p)

RECURSIVE clear_parents(_, _)
\* for c in removed: UPDATE tasks SET parent = NULL WHERE id = c
clear_parents(db, removed) ==
    IF removed = {} THEN db
    ELSE LET c == CHOOSE x \in removed : TRUE
         IN clear_parents(SetParent(db, c, NULL), removed \ {c})

\* mutant: clears the parent of every previous child, kept ones included
childs_removed_all_prev(prev, childs) == Range(prev)

\* removed = set(prev) - set(childs)
childs_removed(prev, childs) == Range(prev) \ Range(childs)

\* mutant: the UPDATE of childs without its WHERE clause
update_childs_write_all_rows(db, task_id, childs) ==
    LET prev == IF task_id \in DOMAIN db THEN db[task_id].childs ELSE <<>>
        db1 == [i \in DOMAIN db |-> [db[i] EXCEPT !.childs = childs]]
        db2 == set_parents(db1, childs, task_id)
    IN clear_parents(db2, childs_removed(prev, childs))

\* the writes of _update_childs, after the validation passed
update_childs_write(db, task_id, childs) ==
    LET prev == IF task_id \in DOMAIN db THEN db[task_id].childs ELSE <<>>
        db1 == SetChilds(db, task_id, childs)
        db2 == set_parents(db1, childs, task_id)
    IN clear_parents(db2, childs_removed(prev, childs))

update_childs(db, task_id, childs) ==
    IF childs_rejected(db, task_id, childs)
    THEN [db |-> db, err |-> "ValueError"]
    ELSE [db |-> update_childs_write(db, task_id, childs), err |-> "ok"]

\* ---- insert_task ----
\* mutant: a rejected child list leaves the new row in the table
insert_task_no_rollback(db, id, parent_id, childs_list, status) ==
    LET db1 == [i \in DOMAIN db \cup {id} |->
                    IF i = id THEN Row(parent_id, childs_list, status) ELSE db[i]]
        r == update_childs(db1, id, childs_list)
    IN IF childs_list = <<>> THEN [db |-> db1, err |-> "ok"]
       ELSE IF r.err # "ok" THEN [db |-> db1, err |-> "None"]
       ELSE [db |-> r.db, err |-> "ok"]

insert_task(db, id, parent_id, childs_list, status) ==
    LET db1 == [i \in DOMAIN db \cup {id} |->
                    IF i = id THEN Row(parent_id, childs_list, status) ELSE db[i]]
        r == update_childs(db1, id, childs_list)
    IN IF childs_list = <<>> THEN [db |-> db1, err |-> "ok"]
       ELSE IF r.err # "ok" THEN [db |-> DeleteRow(db1, id), err |-> "None"]
       ELSE [db |-> r.db, err |-> "ok"]

\* ---- delete_task_recursive ----
\* A call that re-enters an id still on its own call stack sees the same rows
\* again and recurses without end: Python raises RecursionError.
RECURSIVE delete_rec(_, _, _), delete_children(_, _, _)

delete_children(db, cs, path) ==
    IF cs = <<>> THEN [db |-> db, err |-> "ok"]
    ELSE LET r == delete_rec(db, Head(cs), path)
         IN IF r.err # "ok" THEN r ELSE delete_children(r.db, Tail(cs), path)

delete_rec(db, task_id, path) ==
    LET task == get_task(db, task_id, {})
    IN IF task.id = 0 THEN [db |-> db, err |-> "ok"]
       ELSE IF task_id \in path THEN [db |-> db, err |-> "RecursionError"]
       ELSE LET r == delete_children(db, ChildIds(task), path \cup {task_id})
            IN IF r.err # "ok" THEN r
               ELSE [db |-> DeleteRow(r.db, task_id), err |-> "ok"]

\* mutant: no early return for an absent task, task.childs is read on None
delete_task_absent_raises(db, task_id) ==
    IF task_id \notin DOMAIN db THEN [db |-> db, err |-> "AttributeError"]
    ELSE delete_rec(db, task_id, {})

\* mutant: deletes the row and its direct children only
delete_task_one_level(db, task_id) ==
    LET task == get_task(db, task_id, {})
    IN IF task.id = 0 THEN [db |-> db, err |-> "ok"]
       ELSE [db |-> [i \in DOMAIN db \ ({task_id} \cup Range(ChildIds(task)))
                        |-> db[i]],
             err |-> "ok"]

delete_task_recursive(db, task_id) == delete_rec(db, task_id, {})

\* ---- toggle_task / _set_task_status_recursive ----
RECURSIVE set_status_rec(_, _, _, _), set_status_children(_, _, _, _)

set_status_children(db, cs, status, path) ==
    IF cs = <<>> THEN [db |-> db, err |-> "ok"]
    ELSE LET r == set_status_rec(db, Head(cs), status, path)
         IN IF r.err # "ok" THEN r
            ELSE set_status_children(r.db, Tail(cs), status, path)

set_status_rec(db, task_id, status, path) ==
    LET db1 == SetStatus(db, task_id, status)
        child_task == get_task(db1, task_id, {})
    IN IF child_task.id = 0 THEN [db |-> db1, err |-> "AttributeError"]
       ELSE IF task_id \in path THEN [db |-> db1, err |-> "RecursionError"]
       ELSE set_status_children(db1, ChildIds(child_task), status,
                                path \cup {task_id})

\* mutant: sets the status of the task itself and stops
set_task_status_flat(db, task_id, status) ==
    [db |-> SetStatus(db, task_id, status), err |-> "ok"]

set_task_status_recursive(db, task_id, status) ==
    set_status_rec(db, task_id, status, {})

RECURSIVE toggle_children(_, _)
\* for child in task.childs: self._set_task_status_recursive(child.id, True)
toggle_children(db, cs) ==
    IF cs = <<>> THEN [db |-> db, err |-> "ok"]
    ELSE LET r == set_task_status_recursive(db, Head(cs), TRUE)
         IN IF r.err # "ok" THEN r ELSE toggle_children(r.db, Tail(cs))

toggle_task(db, task_id) ==
    LET task == get_task(db, task_id, {})
        new_status == ~task.status
        db1 == SetStatus(db, task_id, new_status)
    IN IF task.id = 0 THEN [db |-> db, err |-> "ok"]
       ELSE IF new_status THEN toggle_children(db1, ChildIds(task))
       ELSE [db |-> db1, err |-> "ok"]

\* ---- main.py: the request handlers ----
\* models.Task is a dataclass whose field `updated` has no default: building a
\* Task without it raises TypeError before anything else happens.
Task_init_raises(has_updated) == ~has_updated

RECURSIVE is_descendant_rec(_, _, _, _), is_descendant_any(_, _, _, _)

\* any(is_descendant(child.id, target_id) for child in descendant_task.childs)
is_descendant_any(db, cs, target_id, path) ==
    IF cs = <<>> THEN "False"
    ELSE LET r == is_descendant_rec(db, Head(cs), target_id, path)
         IN IF r # "False" THEN r
            ELSE is_descendant_any(db, Tail(cs), target_id, path)

\* a call that re-enters an id on its own call stack repeats itself without
\* end: RecursionError
is_descendant_rec(db, descendant_id, target_id, path) ==
    LET descendant_task == get_task(db, descendant_id, {})
    IN IF descendant_task.id = 0 THEN "False"
       ELSE IF descendant_id \in path THEN "RecursionError"
       ELSE IF target_id \in Range(ChildIds(descendant_task)) THEN "True"
       ELSE is_descendant_any(db, ChildIds(descendant_task), target_id,
                              path \cup {descendant_id})

\* mutant: looks at the direct children only
is_descendant_direct(db, descendant_id, target_id) ==
    LET descendant_task == get_task(db, descendant_id, {})
    IN IF descendant_task.id = 0 THEN "False"
       ELSE IF target_id \in Range(ChildIds(descendant_task)) THEN "True"
       ELSE "False"

is_descendant(db, descendant_id, target_id) ==
    is_descendant_rec(db, descendant_id, target_id, {})

\* GET /tasks: the root listing, filtered by the ids that the tasks returned by
\* db.get_tasks() list as children
get_tasks_route(db) ==
    LET all_child_ids == UNION {Range(ChildIds(t)) : t \in get_tasks(db)}
    IN {t \in get_tasks(db) : t.id \notin all_child_ids}

\* Database.update_task as change_parent reaches it: the full-row UPDATE with
\* the fields of the Task object handed in
update_task(db, id, parent_id, childs_list, status) ==
    IF id \in DOMAIN db
    THEN [db |-> [db EXCEPT ![id] = Row(parent_id, childs_list, status)],
          err |-> "ok"]
    ELSE [db |-> db, err |-> "ok"]

create_task(db, id, status, parent) ==
    LET parent_task == get_task(db, parent, {})
        ins == insert_task(db, id, parent, <<>>, status)
        upd == update_childs(ins.db, parent, Append(ChildIds(parent_task), id))
    IN IF parent # NULL /\ parent_task.id = 0
       THEN [db |-> db, err |-> "HTTP404", used |-> FALSE]
       ELSE IF Task_init_raises(FALSE)
       THEN [db |-> db, err |-> "TypeError", used |-> FALSE]
       ELSE IF parent # NULL
       THEN [db |-> upd.db, err |-> upd.err, used |-> TRUE]
       ELSE [db |-> ins.db, err |-> "ok", used |-> TRUE]

delete_task(db, id) ==
    IF get_task(db, id, {}).id = 0 THEN [db |-> db, err |-> "HTTP404"]
    ELSE delete_task_recursive(db, id)

toggle_task_route(db, id) ==
    IF get_task(db, id, {}).id = 0 THEN [db |-> db, err |-> "HTTP404"]
    ELSE toggle_task(db, id)

\* the two child-list rewrites and the final update_task of change_parent, for
\* a task whose hydrated parent is None
change_parent_write(db, task, parent_id) ==
    LET new_parent_task == get_task(db, parent_id, {})
        r == IF parent_id # NULL /\ new_parent_task.id # 0
             THEN update_childs(db, parent_id,
                                Append(ChildIds(new_parent_task), task.id))
             ELSE [db |-> db, err |-> "ok"]
    IN IF r.err # "ok" THEN r
       \* task.parent = parent_id is an int: update_task reads task.parent.id
       ELSE IF parent_id # NULL THEN [db |-> r.db, err |-> "AttributeError"]
       ELSE update_task(r.db, task.id, NULL, ChildIds(task), task.status)

change_parent(db, id, parent_id) ==
    LET task == get_task(db, id, {})
        old_parent_id == task.parent      \* a Task object, not an id
        desc == is_descendant(db, id, parent_id)
    IN IF task.id = 0 THEN [db |-> db, err |-> "HTTP404"]
       ELSE IF parent_id # NULL /\ parent_id = task.id
       THEN [db |-> db, err |-> "HTTP400"]
       ELSE IF parent_id # NULL /\ desc = "RecursionError"
       THEN [db |-> db, err |-> "RecursionError"]
       ELSE IF parent_id # NULL /\ desc = "True"
       THEN [db |-> db, err |-> "HTTP400"]
       \* db.get_task(old_parent_id) tests `id in visited` with a Task object,
       \* which is unhashable
       ELSE IF old_parent_id.id # 0 THEN [db |-> db, err |-> "TypeError"]
       ELSE change_parent_write(db, task, parent_id)

\* ---- the record of the last call ----
Call(op, id, parent, childs, result, pre) ==
    [op |-> op, id |-> id, parent |-> parent, childs |-> childs,
     result |-> result, pre |-> pre]

NoCall == Call("none", 0, 0, <<>>, "ok", <<>>)

\* ---- the requests in progress ----
\* two clients, each sends one request
Clients == {1, 2}

\* op: the handler; pc: the statement the handler is at; id, parent: the path
\* and query/body arguments; task, childs: the handler's locals (the Task read
\* first, the child list to be written); result: the outcome once pc is "done".
\* The locals of _update_childs and _is_ancestor while they run: i, the
\* position in childs of the loop in progress; current and seen of the
\* ancestor walk; prev, the childs list read by the cursor block; removed, the
\* former children whose parent is still to be cleared.
Req(op, pc, id, parent, task, childs, result) ==
    [op |-> op, pc |-> pc, id |-> id, parent |-> parent, task |-> task,
     childs |-> childs, result |-> result,
     i |-> 0, current |-> NULL, seen |-> {}, prev |-> <<>>, removed |-> {}]

NoReq == Req("none", "idle", 0, 0, NoTask, <<>>, "none")

\* the handler returns or raises: the locals of the store calls are gone
Done(q, result) ==
    [q EXCEPT !.pc = "done", !.result = result,
              !.i = 0, !.current = NULL, !.seen = {}, !.prev = <<>>,
              !.removed = {}]

Init ==
    /\ tasks = <<>>
    /\ nextId = 1
    /\ last = NoCall
    /\ reqs = [r \in Clients |-> NoReq]

\* ---- Tree Store operations (calls run one after another) ----
InsertTask ==
    /\ last = NoCall
    /\ nextId <= MaxTasks
    /\ \E p \in {NULL} \cup DOMAIN tasks, st \in BOOLEAN,
          cs \in SeqsUpTo(DOMAIN tasks, MaxLen) :
        LET r == insert_task(tasks, nextId, p, cs, st)
        IN /\ tasks' = r.db
           /\ last' = Call("insert_task", nextId, p, cs, r.err, tasks)
    /\ nextId' = nextId + 1
    /\ UNCHANGED reqs

UpdateChilds ==
    /\ last = NoCall
    /\ \E id \in DOMAIN tasks, cs \in SeqsUpTo(DOMAIN tasks, MaxLen) :
        LET r == update_childs(tasks, id, cs)
        IN /\ tasks' = r.db
           /\ last' = Call("update_childs", id, 0, cs, r.err, tasks)
    /\ UNCHANGED <<nextId, reqs>>

ToggleTask ==
    /\ last = NoCall
    /\ \E id \in 1..(nextId - 1) :
        LET r == toggle_task(tasks, id)
        IN /\ tasks' = r.db
           /\ last' = Call("toggle_task", id, 0, <<>>, r.err, tasks)
    /\ UNCHANGED <<nextId, reqs>>

DeleteTaskRecursive ==
    /\ last = NoCall
    /\ \E id \in 1..(nextId - 1) :
        LET r == delete_task_recursive(tasks, id)
        IN /\ tasks' = r.db
           /\ last' = Call("delete_task_recursive", id, 0, <<>>, r.err, tasks)
    /\ UNCHANGED <<nextId, reqs>>

\* the caller takes the outcome of the call; the next call can start
Return ==
    /\ last # NoCall
    /\ last' = NoCall
    /\ UNCHANGED <<tasks, nextId, reqs>>

NextStore ==
    \/ InsertTask
    \/ UpdateChilds
    \/ ToggleTask
    \/ DeleteTaskRecursive
    \/ Return

SpecStore == Init /\ [][NextStore]_vars

\* ---- Task Service operations ----
CreateTask ==
    /\ last = NoCall
    /\ nextId <= MaxTasks
    /\ \E p \in 0..(nextId - 1), st \in BOOLEAN :
        LET r == create_task(tasks, nextId, st, p)
        IN /\ tasks' = r.db
           /\ last' = Call("create_task", nextId, p, <<>>, r.err, tasks)
           /\ nextId' = IF r.used THEN nextId + 1 ELSE nextId
    /\ UNCHANGED reqs

DeleteTask ==
    /\ last = NoCall
    /\ \E id \in 1..(nextId - 1) :
        LET r == delete_task(tasks, id)
        IN /\ tasks' = r.db
           /\ last' = Call("delete_task", id, 0, <<>>, r.err, tasks)
    /\ UNCHANGED <<nextId, reqs>>

ToggleTaskRoute ==
    /\ last = NoCall
    /\ \E id \in 1..(nextId - 1) :
        LET r == toggle_task_route(tasks, id)
        IN /\ tasks' = r.db
           /\ last' = Call("toggle_task_route", id, 0, <<>>, r.err, tasks)
    /\ UNCHANGED <<nextId, reqs>>

ChangeParent ==
    /\ last = NoCall
    /\ \E id \in 1..(nextId - 1), p \in 0..(nextId - 1) :
        LET r == change_parent(tasks, id, p)
        IN /\ tasks' = r.db
           /\ last' = Call("change_parent", id, p, <<>>, r.err, tasks)
    /\ UNCHANGED <<nextId, reqs>>

\* create_task cannot insert a row, so the store the handlers work on is filled
\* through Database.insert_task
NextService ==
    \/ InsertTask
    \/ CreateTask
    \/ DeleteTask
    \/ ToggleTaskRoute
    \/ ChangeParent
    \/ Return

SpecService == Init /\ [][NextService]_vars

\* ---- Task Service requests of two clients, run statement by statement ----
\* The handlers are plain `def` routes: the framework runs each request on a
\* worker thread on the one shared connection, so the statements of two
\* requests interleave. In _update_childs one step is one SQL statement (each
\* SELECT parent of the ancestor walk, the SELECT childs, each UPDATE), with
\* the Python code that follows it up to the next statement; get_task,
\* is_descendant and update_task are one step each.

\* POST /tasks arrives
CreateStart ==
    /\ last = NoCall
    /\ \E r \in Clients, p \in 0..(nextId - 1) :
        /\ reqs[r].pc = "idle"
        /\ reqs' = [reqs EXCEPT ![r] =
                      Req("create_task", "cr_get_parent", 0, p, NoTask, <<>>, "none")]
    /\ UNCHANGED <<tasks, nextId, last>>

\* parent_task = db.get_task(parent); 404 if a parent was named and is absent
CreateGetParent ==
    /\ last = NoCall
    /\ \E r \in Clients :
        /\ reqs[r].pc = "cr_get_parent"
        /\ LET q == reqs[r]
               parent_task == get_task(tasks, q.parent, {})
           IN reqs' = [reqs EXCEPT ![r] =
                  IF q.parent # NULL /\ parent_task.id = 0
                  THEN Done(q, "HTTP404")
                  ELSE [q EXCEPT !.pc = "cr_build_task", !.task = parent_task]]
    /\ UNCHANGED <<tasks, nextId, last>>

\* Task(id=0, title=..., description=..., status=..., parent=..., childs=[]):
\* the constructor raises and the handler ends before db.insert_task
CreateBuildTask ==
    /\ last = NoCall
    /\ \E r \in Clients :
        /\ reqs[r].pc = "cr_build_task"
        /\ Task_init_raises(FALSE)
        /\ reqs' = [reqs EXCEPT ![r] = Done(reqs[r], "TypeError")]
    /\ UNCHANGED <<tasks, nextId, last>>

\* POST /tasks/{id}/change-parent arrives
ChangeParentStart ==
    /\ last = NoCall
    /\ \E r \in Clients, id \in 1..(nextId - 1), p \in 0..(nextId - 1) :
        /\ reqs[r].pc = "idle"
        /\ reqs' = [reqs EXCEPT ![r] =
                      Req("change_parent", "cp_get_task", id, p, NoTask, <<>>, "none")]
    /\ UNCHANGED <<tasks, nextId, last>>

\* task = db.get_task(id), old_parent_id = task.parent, parent_id == task.id
ChangeParentGetTask ==
    /\ last = NoCall
    /\ \E r \in Clients :
        /\ reqs[r].pc = "cp_get_task"
        /\ LET q == reqs[r]
               task == get_task(tasks, q.id, {})
           IN reqs' = [reqs EXCEPT ![r] =
                  IF task.id = 0 THEN Done(q, "HTTP404")
                  ELSE IF q.parent # NULL /\ q.parent = task.id
                  THEN Done(q, "HTTP400")
                  ELSE IF q.parent # NULL
                  THEN [q EXCEPT !.pc = "cp_is_descendant", !.task = task]
                  \* db.get_task(old_parent_id) with a Task object
                  ELSE IF task.parent.id # 0 THEN Done(q, "TypeError")
                  ELSE [q EXCEPT !.pc = "cp_update_task", !.task = task]]
    /\ UNCHANGED <<tasks, nextId, last>>

\* if is_descendant(id, parent_id): 400; then the old parent's branch
ChangeParentIsDescendant ==
    /\ last = NoCall
    /\ \E r \in Clients :
        /\ reqs[r].pc = "cp_is_descendant"
        /\ LET q == reqs[r]
               desc == is_descendant(tasks, q.id, q.parent)
           IN reqs' = [reqs EXCEPT ![r] =
                  IF desc = "RecursionError" THEN Done(q, "RecursionError")
                  ELSE IF desc = "True" THEN Done(q, "HTTP400")
                  \* db.get_task(old_parent_id) with a Task object
                  ELSE IF q.task.parent.id # 0 THEN Done(q, "TypeError")
                  ELSE [q EXCEPT !.pc = "cp_get_new_parent"]]
    /\ UNCHANGED <<tasks, nextId, last>>

\* the validation loop of _update_childs arrives at childs[i]: past the end
\* the validation is over; a child equal to task_id raises; otherwise
\* _is_ancestor(childs[i], task_id) starts its walk at task_id and is about to
\* read the parent of task_id
validate_child(q, i) ==
    IF i > Len(q.childs)
    THEN [q EXCEPT !.pc = "cp_select_childs", !.i = 0, !.current = NULL,
                   !.seen = {}]
    ELSE IF q.childs[i] = q.parent THEN Done(q, "ValueError")
    ELSE [q EXCEPT !.pc = "cp_validate", !.i = i, !.current = q.parent,
                   !.seen = {q.parent}]

\* new_parent_task = db.get_task(parent_id); new_parent_task.childs.append(task);
\* db._update_childs(parent_id, ...) up to its first SELECT
ChangeParentGetNewParent ==
    /\ last = NoCall
    /\ \E r \in Clients :
        /\ reqs[r].pc = "cp_get_new_parent"
        /\ LET q == reqs[r]
               new_parent_task == get_task(tasks, q.parent, {})
           IN reqs' = [reqs EXCEPT ![r] =
                  IF new_parent_task.id = 0
                  THEN [q EXCEPT !.pc = "cp_update_task"]
                  ELSE validate_child(
                           [q EXCEPT !.childs =
                                Append(ChildIds(new_parent_task), q.id)], 1)]
    /\ UNCHANGED <<tasks, nextId, last>>

\* one turn of the while loop of _is_ancestor: current = _get_parent_id(current),
\* a single SELECT, then the tests on the id read
ChangeParentValidate ==
    /\ last = NoCall
    /\ \E r \in Clients :
        /\ reqs[r].pc = "cp_validate"
        /\ LET q == reqs[r]
               current == get_parent_id(tasks, q.current)
           IN reqs' = [reqs EXCEPT ![r] =
                  IF current = NULL THEN validate_child(q, q.i + 1)
                  ELSE IF current \in q.seen THEN Done(q, "ValueError")
                  ELSE IF current = q.childs[q.i] THEN Done(q, "ValueError")
                  ELSE [q EXCEPT !.current = current,
                                 !.seen = q.seen \cup {current}]]
    /\ UNCHANGED <<tasks, nextId, last>>

\* the cursor block of _update_childs: SELECT childs FROM tasks WHERE id = task_id
ChangeParentSelectChilds ==
    /\ last = NoCall
    /\ \E r \in Clients :
        /\ reqs[r].pc = "cp_select_childs"
        /\ reqs' = [reqs EXCEPT ![r].pc = "cp_update_childs",
                                ![r].prev = IF reqs[r].parent \in DOMAIN tasks
                                            THEN tasks[reqs[r].parent].childs
                                            ELSE <<>>]
    /\ UNCHANGED <<tasks, nextId, last>>

\* UPDATE tasks SET childs = childs WHERE id = task_id
ChangeParentUpdateChilds ==
    /\ last = NoCall
    /\ \E r \in Clients :
        /\ reqs[r].pc = "cp_update_childs"
        /\ tasks' = SetChilds(tasks, reqs[r].parent, reqs[r].childs)
        /\ reqs' = [reqs EXCEPT ![r].pc = "cp_set_parent", ![r].i = 1]
    /\ UNCHANGED <<nextId, last>>

\* for c in childs: UPDATE tasks SET parent = task_id WHERE id = c, one
\* statement; after the last one removed = set(prev) - set(childs)
ChangeParentSetParent ==
    /\ last = NoCall
    /\ \E r \in Clients :
        /\ reqs[r].pc = "cp_set_parent"
        /\ LET q == reqs[r]
               removed == childs_removed(q.prev, q.childs)
           IN /\ tasks' = SetParent(tasks, q.childs[q.i], q.parent)
              /\ reqs' = [reqs EXCEPT ![r] =
                    IF q.i < Len(q.childs) THEN [q EXCEPT !.i = q.i + 1]
                    ELSE IF removed = {}
                    THEN [q EXCEPT !.pc = "cp_update_task", !.i = 0,
                                   !.prev = <<>>]
                    ELSE [q EXCEPT !.pc = "cp_clear_parent", !.i = 0,
                                   !.prev = <<>>, !.removed = removed]]
    /\ UNCHANGED <<nextId, last>>

\* for c in removed: UPDATE tasks SET parent = NULL WHERE id = c, one statement
\* (a set of small ints is iterated in ascending order)
ChangeParentClearParent ==
    /\ last = NoCall
    /\ \E r \in Clients :
        /\ reqs[r].pc = "cp_clear_parent"
        /\ LET q == reqs[r]
               c == CHOOSE x \in q.removed : \A y \in q.removed : x <= y
           IN /\ tasks' = SetParent(tasks, c, NULL)
              /\ reqs' = [reqs EXCEPT ![r] =
                    IF q.removed = {c}
                    THEN [q EXCEPT !.pc = "cp_update_task", !.removed = {}]
                    ELSE [q EXCEPT !.removed = q.removed \ {c}]]
    /\ UNCHANGED <<nextId, last>>

\* task.parent = parent_id; db.update_task(task); return db.get_task(id)
ChangeParentUpdateTask ==
    /\ last = NoCall
    /\ \E r \in Clients :
        /\ reqs[r].pc = "cp_update_task"
        /\ LET q == reqs[r]
           IN IF q.parent # NULL
              \* task.parent is an int: update_task reads task.parent.id
              THEN /\ reqs' = [reqs EXCEPT ![r] = Done(q, "AttributeError")]
                   /\ UNCHANGED tasks
              ELSE /\ tasks' = update_task(tasks, q.id, NULL, ChildIds(q.task),
                                           q.task.status).db
                   /\ reqs' = [reqs EXCEPT ![r] = Done(q, "ok")]
    /\ UNCHANGED <<nextId, last>>

\* the rows the requests work on are put there through Database.insert_task
\* before the first request arrives
Populate ==
    /\ \A r \in Clients : reqs[r].pc = "idle"
    /\ InsertTask

NextRequests ==
    \/ Populate
    \/ Return
    \/ CreateStart
    \/ CreateGetParent
    \/ CreateBuildTask
    \/ ChangeParentStart
    \/ ChangeParentGetTask
    \/ ChangeParentIsDescendant
    \/ ChangeParentGetNewParent
    \/ ChangeParentValidate
    \/ ChangeParentSelectChilds
    \/ ChangeParentUpdateChilds
    \/ ChangeParentSetParent
    \/ ChangeParentClearParent
    \/ ChangeParentUpdateTask

SpecRequests == Init /\ [][NextRequests]_vars

\* ---- getTask over arbitrary stored data ----
\* every table over the ids, rows hand-edited at will: parents and childs
\* entries may point anywhere, at absent rows and in circles
AnyTables ==
    UNION {[D -> [parent : 0..MaxTasks,
                  childs : SeqsUpTo(1..MaxTasks, MaxLen),
                  status : {FALSE}]] : D \in SUBSET (1..MaxTasks)}

InitAnyTable ==
    /\ tasks \in AnyTables
    /\ nextId = MaxTasks + 1
    /\ last = NoCall
    /\ reqs = [r \in Clients |-> NoReq]

\* GET /tasks/{id}: db.get_task(id)
GetTask ==
    /\ last = NoCall
    /\ \E id \in 1..(nextId - 1) :
        last' = Call("get_task", id, 0, <<>>,
                     IF get_task(tasks, id, {}).id = 0 THEN "None" ELSE "ok",
                     tasks)
    /\ UNCHANGED <<tasks, nextId, reqs>>

NextHydrate ==
    \/ GetTask
    \/ Return

SpecHydrate == InitAnyTable /\ [][NextHydrate]_vars

\* ---- the ancestor check over arbitrary stored data ----
\* Database._is_ancestor(ancestor_id, descendant_id), None included; the call
\* record keeps descendant_id in `id` and ancestor_id in `parent`
IsAncestor ==
    /\ last = NoCall
    /\ \E ancestor_id \in 0..MaxTasks, descendant_id \in 0..MaxTasks :
        last' = Call("is_ancestor", descendant_id, ancestor_id, <<>>,
                     IF is_ancestor(tasks, ancestor_id, descendant_id)
                     THEN "True" ELSE "False",
                     tasks)
    /\ UNCHANGED <<tasks, nextId, reqs>>

NextAncestor ==
    \/ IsAncestor
    \/ UpdateChilds
    \/ Return

SpecAncestor == InitAnyTable /\ [][NextAncestor]_vars

\* ---- the notions the properties are stated in ----
\* the ids the table mentions: rows, listed children, parents
IdsOf(db) ==
    DOMAIN db
        \cup UNION {Range(db[a].childs) : a \in DOMAIN db}
        \cup ({db[a].parent : a \in DOMAIN db} \ {NULL})

\* B is listed in A's stored childs
Lists(db, a, b) == a \in DOMAIN db /\ b \in Range(db[a].childs)

\* B exists and its stored parent is A
HasParent(db, b, a) == b \in DOMAIN db /\ db[b].parent = a

\* I1, symmetry
I1(db) == \A a \in IdsOf(db), b \in IdsOf(db) : Lists(db, a, b) <=> HasParent(db, b, a)

\* the tasks listed as children by the tasks of S
ChildStep(db, S) == {b \in DOMAIN db : \E a \in S : Lists(db, a, b)}

\* the parents of the tasks of S
ParentStep(db, S) == {a \in DOMAIN db : \E b \in S : HasParent(db, b, a)}

RECURSIVE DownClosure(_, _)
DownClosure(db, S) ==
    LET N == S \cup ChildStep(db, S) IN IF N = S THEN S ELSE DownClosure(db, N)

RECURSIVE UpClosure(_, _)
UpClosure(db, S) ==
    LET N == S \cup ParentStep(db, S) IN IF N = S THEN S ELSE UpClosure(db, N)

\* the transitive descendants of t through childs lists
Descendants(db, t) == DownClosure(db, ChildStep(db, {t}))

\* the tasks reached by following parent links upward from t
Ancestors(db, t) == UpClosure(db, ParentStep(db, {t}))

\* I2, acyclicity
Acyclic(db) ==
    \A t \in DOMAIN db : t \notin Descendants(db, t) /\ t \notin Ancestors(db, t)

ServiceOps == {"create_task", "delete_task", "toggle_task_route", "change_parent"}

\* ---- C1 ----
\* C1 (as claimed): after any sequence of completed insertTask, updateChilds,
\* toggleTask and deleteTaskRecursive calls no task is its own ancestor,
\* neither through parent links nor through childs lists.
C1_Acyclicity == Acyclic(tasks)

\* ---- C2 ----
\* C2 (as claimed): the Task Service operations keep I1: when B is listed in
\* A's childs exactly if B exists with parent A before a completed create,
\* delete, toggle or change-parent, the same is true after it; no surviving
\* task lists a deleted id.
C2_ServiceSymmetry ==
    (last.op \in ServiceOps /\ I1(last.pre)) => I1(tasks)

\* ---- C3 ----
\* C3 (as claimed): from a state where I1 holds, a successful updateChilds
\* whose ids all exist ends in a state where I1 holds.
C3_UpdateChildsRestoresI1 ==
    (/\ last.op = "update_childs"
     /\ last.result = "ok"
     /\ last.id \in DOMAIN last.pre
     /\ Range(last.childs) \subseteq DOMAIN last.pre
     /\ I1(last.pre))
    => I1(tasks)

\* ---- C4 ----
\* C4: after updateChilds(A, L) succeeds, every B of L has stored parent A and
\* getTask(B) returns a task whose hydrated parent has id A.
C4_ChildGetsParent ==
    (last.op = "update_childs" /\ last.result = "ok")
    => \A b \in Range(last.childs) :
          /\ b \in DOMAIN tasks
          /\ tasks[b].parent = last.id
          /\ get_task(tasks, b, {}).parent.id = last.id

\* a two-element list was accepted whose second element had another parent
C4_Witness ==
    /\ last.op = "update_childs"
    /\ last.result = "ok"
    /\ Len(last.childs) = 2
    /\ last.childs[1] # last.childs[2]
    /\ last.pre[last.childs[2]].parent \notin {NULL, last.id}
    /\ get_task(tasks, last.childs[2], {}).parent.id = last.id

\* ---- C5 ----
\* C5: updateChilds(A, L) with A anywhere in L fails with the cycle error
\* (ValueError) and changes no row.
C5_SelfChildRejected ==
    (last.op = "update_childs" /\ last.id \in Range(last.childs))
    => (last.result = "ValueError" /\ tasks = last.pre)

\* the own id stood second, behind an id that is neither the task nor one of
\* its ancestors
C5_Witness ==
    /\ last.op = "update_childs"
    /\ Len(last.childs) = 2
    /\ last.childs[2] = last.id
    /\ last.childs[1] \notin Ancestors(last.pre, last.id) \cup {last.id}
    /\ last.result = "ValueError"
    /\ tasks = last.pre

\* ---- C6 ----
\* C6: updateChilds(id, L) with some element of L an ancestor of id (reached
\* by parent links upward from id) is rejected with the cycle error and every
\* row is as before, whatever the position of that element.
C6_AncestorChildRejected ==
    (/\ last.op = "update_childs"
     /\ Range(last.childs) \cap Ancestors(last.pre, last.id) # {})
    => (last.result = "ValueError" /\ tasks = last.pre)

\* the offending element stood second, behind an id that is neither the task
\* nor one of its ancestors
C6_Witness ==
    /\ last.op = "update_childs"
    /\ Len(last.childs) = 2
    /\ last.childs[1] \notin Ancestors(last.pre, last.id) \cup {last.id}
    /\ last.childs[2] \in Ancestors(last.pre, last.id)
    /\ last.result = "ValueError"
    /\ tasks = last.pre

\* ---- C7 ----
\* C7: change-parent(T, P) on an existing T is answered 400 and changes no row
\* when P = T and when P is a task of T's subtree.
C7_BadParentRejected ==
    (/\ last.op = "change_parent"
     /\ last.id \in DOMAIN last.pre
     /\ \/ last.parent = last.id
        \/ last.parent \in Descendants(last.pre, last.id))
    => (last.result = "HTTP400" /\ tasks = last.pre)

\* the requested parent was a child of a child of T, not a direct child
C7_Witness ==
    /\ last.op = "change_parent"
    /\ last.id \in DOMAIN last.pre
    /\ last.parent \in Descendants(last.pre, last.id)
    /\ ~Lists(last.pre, last.id, last.parent)
    /\ last.result = "HTTP400"
    /\ tasks = last.pre

\* ---- C8 ----
\* C8 (as claimed): for an existing T with existing parent O and a new parent
\* N (none, or an existing task other than T, O and T's subtree),
\* change-parent(T, N) completes without error; afterwards T is not in O's
\* childs, T's stored parent is N, and T is the last element of N's childs.
C8_ValidReparent ==
    LET T == last.id
        N == last.parent
        O == last.pre[T].parent
    IN (/\ last.op = "change_parent"
        /\ T \in DOMAIN last.pre
        /\ O \in DOMAIN last.pre
        /\ N # T
        /\ N # O
        /\ N = NULL \/ (N \in DOMAIN last.pre /\ N \notin Descendants(last.pre, T)))
       => /\ last.result = "ok"
          /\ ~Lists(tasks, O, T)
          /\ tasks[T].parent = N
          /\ N # NULL => (/\ tasks[N].childs # <<>>
                          /\ tasks[N].childs[Len(tasks[N].childs)] = T)

\* ---- C9 ----
\* C9: in an acyclic store toggleTask(id) on a task with status false sets the
\* status of the task and of every transitive descendant to true; on a task
\* with status true it sets that task's status to false and leaves the status
\* of every other task as it was.
C9_CascadeOnActivate ==
    (/\ last.op = "toggle_task"
     /\ last.id \in DOMAIN last.pre
     /\ Acyclic(last.pre))
    => /\ DOMAIN tasks = DOMAIN last.pre
       /\ IF ~last.pre[last.id].status
          THEN \A d \in {last.id} \cup Descendants(last.pre, last.id) :
                  tasks[d].status = TRUE
          ELSE /\ tasks[last.id].status = FALSE
               /\ \A d \in DOMAIN tasks \ {last.id} :
                     tasks[d].status = last.pre[d].status

\* an activation reached a child of a child whose status was false
C9_Witness ==
    /\ last.op = "toggle_task"
    /\ last.id \in DOMAIN last.pre
    /\ Acyclic(last.pre)
    /\ ~last.pre[last.id].status
    /\ \E d \in Descendants(last.pre, last.id) :
          /\ ~Lists(last.pre, last.id, d)
          /\ ~last.pre[d].status
          /\ tasks[d].status

\* ---- C10 ----
\* C10: in an acyclic store, after deleteTaskRecursive(id) the rows of id and
\* of every transitive descendant of id are gone (getTask returns none) and
\* the row of every other task is still there.
C10_DeleteSubtree ==
    (last.op = "delete_task_recursive" /\ Acyclic(last.pre))
    => LET gone == ({last.id} \cup Descendants(last.pre, last.id))
                      \cap DOMAIN last.pre
       IN /\ last.result = "ok"
          /\ DOMAIN tasks = DOMAIN last.pre \ gone
          /\ \A d \in gone : get_task(tasks, d, {}).id = 0

\* a task and a descendant of it were deleted and a task outside the subtree
\* stayed
C10_Witness ==
    /\ last.op = "delete_task_recursive"
    /\ Acyclic(last.pre)
    /\ last.id \in DOMAIN last.pre
    /\ \E d \in Descendants(last.pre, last.id) : d \notin DOMAIN tasks
    /\ DOMAIN tasks # {}

\* ---- C11 ----
\* C11: deleteTaskRecursive(id) on an id without a row raises nothing and
\* changes no row; after a completed deleteTaskRecursive(id) the id has no row,
\* so the same call once more returns without error and without a change.
C11_DeleteIdempotent ==
    (last.op = "delete_task_recursive")
    => /\ last.id \notin DOMAIN last.pre
            => (last.result = "ok" /\ tasks = last.pre)
       /\ last.result = "ok"
            => /\ last.id \notin DOMAIN tasks
               /\ delete_task_recursive(tasks, last.id)
                      = [db |-> tasks, err |-> "ok"]

\* the id had been handed out and its row was gone, other rows were there
C11_Witness ==
    /\ last.op = "delete_task_recursive"
    /\ last.id \notin DOMAIN last.pre
    /\ last.id < nextId
    /\ last.pre # <<>>
    /\ last.result = "ok"
    /\ tasks = last.pre

\* ---- C12 ----
\* C12 (as claimed): a task that some other task lists in its childs never
\* appears in the root listing of GET /tasks.
C12_RootEnumeration ==
    \A t \in get_tasks_route(tasks) :
        ~\E a \in DOMAIN tasks \ {t.id} : Lists(tasks, a, t.id)

\* ---- C13 ----
\* no id occurs twice along a chain of nested childs / parent expansions
RECURSIVE NoRepeat(_, _)
NoRepeat(t, seen) ==
    /\ t.id \notin seen
    /\ \A i \in 1..Len(t.childs) : NoRepeat(t.childs[i], seen \cup {t.id})
    /\ t.parent.id # 0 => NoRepeat(t.parent, seen \cup {t.id})

\* C13: for any stored data, cyclic or not, getTask(id) returns none for an
\* absent id and otherwise the task id, hydrated so that no id occurs twice
\* along a chain of expansions; with A.childs=[B], B.childs=[A] the result
\* for A has B as its only child and B's childs empty.
C13_CycleTolerantHydration ==
    (last.op = "get_task")
    => LET t == get_task(tasks, last.id, {})
       IN IF last.id \notin DOMAIN tasks THEN t = NoTask /\ last.result = "None"
          ELSE /\ last.result = "ok"
               /\ t.id = last.id
               /\ NoRepeat(t, {})
               /\ \A b \in DOMAIN tasks \ {last.id} :
                     (tasks[last.id].childs = <<b>> /\ tasks[b].childs = <<last.id>>)
                     => /\ Len(t.childs) = 1
                        /\ t.childs[1].id = b
                        /\ t.childs[1].childs = <<>>

\* getTask ran on a task of a two-task childs cycle whose parent links also
\* form a circle
C13_Witness ==
    /\ last.op = "get_task"
    /\ last.id \in DOMAIN tasks
    /\ \E b \in DOMAIN tasks \ {last.id} :
          /\ tasks[last.id].childs = <<b>>
          /\ tasks[b].childs = <<last.id>>
          /\ tasks[last.id].parent = b
          /\ tasks[b].parent = last.id
          /\ get_task(tasks, last.id, {}).childs[1].childs = <<>>

\* ---- C14 ----
\* C14 (as claimed): on stored data with a childs cycle deleteTaskRecursive
\* and the activation cascade of toggleTask finish without raising.
C14_TraversalsFinish ==
    (/\ last.op \in {"delete_task_recursive", "toggle_task"}
     /\ ~Acyclic(last.pre))
    => last.result = "ok"

\* ---- C15 ----
\* the stored childs of p that have a row
ExistingChilds(db, p) == SelectSeq(db[p].childs, LAMBDA c : c \in DOMAIN db)

\* C15 (as claimed): create with an absent parent fails with 404 and inserts
\* nothing; create with an existing parent P succeeds, the new task has a
\* fresh id and stored parent P, P's childs is its previous list of existing
\* children with the new id appended, getTask(P).childs contains the new task
\* and the new task is not in the root listing.
C15_Create ==
    (last.op = "create_task" /\ last.parent # NULL)
    => LET P == last.parent
           n == last.id
       IN IF P \notin DOMAIN last.pre
          THEN last.result = "HTTP404" /\ tasks = last.pre
          ELSE /\ last.result = "ok"
               /\ n \notin DOMAIN last.pre
               /\ n \in DOMAIN tasks
               /\ tasks[n].parent = P
               /\ tasks[P].childs = Append(ExistingChilds(last.pre, P), n)
               /\ n \in Range(ChildIds(get_task(tasks, P, {})))
               /\ n \notin {t.id : t \in get_tasks_route(tasks)}

\* ---- C16 ----
\* C16: insertTask with a childs list that names the new task's parent or an
\* ancestor of it fails, and the table is as before the call: no row of the
\* new task, no parent or childs changed.
C16_InsertRollback ==
    (/\ last.op = "insert_task"
     /\ last.parent # NULL
     /\ Range(last.childs)
            \cap ({last.parent} \cup Ancestors(last.pre, last.parent)) # {})
    => (last.result = "None" /\ tasks = last.pre)

\* the rejected list named the parent of the new task's parent
C16_Witness ==
    /\ last.op = "insert_task"
    /\ last.parent # NULL
    /\ last.pre # <<>>
    /\ \E i \in 1..Len(last.childs) :
          last.childs[i] \in Ancestors(last.pre, last.parent) \ {last.parent}
    /\ last.result = "None"
    /\ last.id \notin DOMAIN tasks
    /\ tasks = last.pre

\* ---- C17 ----
\* C17: a successful updateChilds(id, L) sets the childs of id to L, the
\* parent of every task of L to id and the parent of every former child
\* missing from L to none; every other childs, every other parent and every
\* status stay as they were, and no row appears or disappears.
C17_UpdateChildsFrame ==
    (last.op = "update_childs" /\ last.result = "ok")
    => /\ DOMAIN tasks = DOMAIN last.pre
       /\ \A t \in DOMAIN last.pre :
             /\ tasks[t].childs =
                    IF t = last.id THEN last.childs ELSE last.pre[t].childs
             /\ tasks[t].parent =
                    IF t \in Range(last.childs) THEN last.id
                    ELSE IF t \in Range(last.pre[last.id].childs) THEN NULL
                    ELSE last.pre[t].parent
             /\ tasks[t].status = last.pre[t].status

\* one child came in, one went out, and another task has a childs list of its
\* own
C17_Witness ==
    /\ last.op = "update_childs"
    /\ last.result = "ok"
    /\ Range(last.childs) \ Range(last.pre[last.id].childs) # {}
    /\ Range(last.pre[last.id].childs) \ Range(last.childs) # {}
    /\ \E t \in DOMAIN tasks \ {last.id} : tasks[t].childs # <<>>

\* ---- C18 ----
\* C18 (as claimed): when the two clients' create requests name the same
\* existing parent P and both have completed, however their store calls were
\* interleaved, each request has created a task of its own that has stored
\* parent P and is listed in P's childs.
C18_ConcurrentCreates ==
    (/\ \A r \in Clients : /\ reqs[r].op = "create_task"
                           /\ reqs[r].pc = "done"
                           /\ reqs[r].parent # NULL
                           /\ reqs[r].result # "HTTP404"
     /\ \A r \in Clients, s \in Clients : reqs[r].parent = reqs[s].parent)
    => /\ \A r \in Clients :
             /\ reqs[r].result = "ok"
             /\ reqs[r].id \in DOMAIN tasks
             /\ tasks[reqs[r].id].parent = reqs[r].parent
             /\ Lists(tasks, reqs[r].parent, reqs[r].id)
       /\ \A r \in Clients, s \in Clients : r # s => reqs[r].id # reqs[s].id

\* ---- C19 ----
\* the request was turned down before any write
Rejected(q) == q.pc = "done" /\ q.result \in {"HTTP400", "ValueError"}

\* C19 (as claimed): when one client asks to move A under B and the other to
\* move B under A, A and B being parentless when the handlers read them, no
\* state of any interleaving of the two requests has a cycle in the parent
\* links or in the childs lists, and once both requests have completed at
\* least one of them was rejected.
C19_AcyclicUnderInterleaving ==
    \A r \in Clients, s \in Clients :
        (/\ r # s
         /\ reqs[r].op = "change_parent" /\ reqs[s].op = "change_parent"
         /\ reqs[r].id # reqs[s].id
         /\ reqs[r].parent = reqs[s].id /\ reqs[s].parent = reqs[r].id
         /\ reqs[r].task.id = reqs[r].id /\ reqs[r].task.parent.id = 0
         /\ reqs[s].task.id = reqs[s].id /\ reqs[s].task.parent.id = 0)
        => /\ Acyclic(tasks)
           /\ (reqs[r].pc = "done" /\ reqs[s].pc = "done")
                  => (Rejected(reqs[r]) \/ Rejected(reqs[s]))

\* ---- C20 ----
\* C20: in a state with I1 and I2, updateChilds(A, L) with L the stored childs
\* of A succeeds and leaves the table as it was, and so does the same call
\* made once more.
C20_ReapplyChilds ==
    (/\ last.op = "update_childs"
     /\ I1(last.pre)
     /\ Acyclic(last.pre)
     /\ last.childs = last.pre[last.id].childs)
    => /\ last.result = "ok"
       /\ tasks = last.pre
       /\ update_childs(tasks, last.id, last.childs)
              = [db |-> tasks, err |-> "ok"]

\* the reapplied list had two different children
C20_Witness ==
    /\ last.op = "update_childs"
    /\ I1(last.pre)
    /\ Acyclic(last.pre)
    /\ last.childs = last.pre[last.id].childs
    /\ Len(last.childs) = 2
    /\ last.childs[1] # last.childs[2]
    /\ last.result = "ok"
    /\ tasks = last.pre

\* ---- C21 ----
RECURSIVE ParentAt(_, _, _)
\* the k-th id on the walk along parent links that starts at t; none once the
\* walk has ended (a row without parent, or an id without a row)
ParentAt(db, t, k) ==
    IF k = 0 THEN t
    ELSE LET prev == ParentAt(db, t, k - 1)
         IN IF prev \in DOMAIN db THEN db[prev].parent ELSE NULL

\* the walk from t never ends: with MaxTasks ids, it meets some id twice
ChainRepeats(db, t) == ParentAt(db, t, MaxTasks) # NULL

\* the ids on the walk from t
ChainIds(db, t) == {ParentAt(db, t, k) : k \in 0..MaxTasks} \ {NULL}

\* C21: isAncestor(candidateId, targetId) returns true when candidateId is on
\* the walk along parent links from targetId, true when that walk meets an id
\* twice, and false when the walk ends without meeting candidateId; and when
\* the walk from id meets an id twice, updateChilds(id, L) is rejected for
\* every non-empty L and writes nothing.
C21_AncestorCheck ==
    /\ (last.op = "is_ancestor" /\ last.id # NULL /\ last.parent # NULL)
       => (last.result = "True"
              <=> \/ last.parent \in ChainIds(last.pre, last.id)
                  \/ ChainRepeats(last.pre, last.id))
    /\ (last.op = "is_ancestor") => last.result \in {"True", "False"}
    /\ (/\ last.op = "update_childs"
        /\ last.childs # <<>>
        /\ ChainRepeats(last.pre, last.id))
       => (last.result = "ValueError" /\ tasks = last.pre)

\* the walk from the target went into a circle that passes neither through
\* the target nor through the candidate, and the answer was true
C21_Witness ==
    /\ last.op = "is_ancestor"
    /\ last.id \in DOMAIN last.pre
    /\ last.parent \in DOMAIN last.pre
    /\ ChainRepeats(last.pre, last.id)
    /\ last.parent \notin ChainIds(last.pre, last.id)
    /\ \A k \in 1..MaxTasks : ParentAt(last.pre, last.id, k) # last.id
    /\ last.result = "True"

====
